---- MODULE Spec2Model ----
(***************************************************************************)
(* A model of plug_tracker.py: the protocol codec (encrypt / decrypt), the *)
(* Scheduler, the SmartPlugClient transactions and the PlugTracker loop;   *)
(* and of the main of plug_blink.py.                                       *)
(*                                                                         *)
(* The specifications that share the module:                               *)
(*   CodecSpec  encrypt / decrypt applied to bounded strings                *)
(*   SchedSpec  Scheduler.is_active / seconds_until_next_active applied to  *)
(*              bounded schedules and instants                              *)
(*   Spec       PlugTracker.run with its two devices and its clock          *)
(*   LiveSpec   Spec with the fairness of a running process                 *)
(*   BlinkSpec  plug_blink.main with its plug                               *)
(***************************************************************************)
EXTENDS Integers, Sequences, FiniteSets, TLC

VARIABLES
  \* ---- codec harness
  codec_pc,        \* "start" | "encrypted" | "decrypted"
  plaintext,       \* the str handed to encrypt, as a sequence of code points
  encrypted,       \* what encrypt(plaintext) did: [exc, value]
  decrypted,       \* decrypt(encrypted[4:]), a sequence of code points
  \* ---- scheduler harness
  sched_pc,        \* "start" | "checked" | "done"
  sched,           \* the Scheduler object: [active_windows, always_active]
  sched_now,       \* the datetime handed to the scheduler: [date, time]
  active_result,   \* what is_active(sched_now.time()) returned
  wait_result,     \* what seconds_until_next_active(sched_now) returned
  \* ---- PlugTracker.run (its scheduler is sched)
  pc,              \* where run() stands
  prev_state,      \* self.prev_state
  clock,           \* the wall clock's time of day, in ticks
  wait_seconds,    \* run's local wait_seconds
  leader_state,    \* tick's local leader_state
  conn,            \* the devices with a socket that _connect created and nothing closed yet
  tick_exc,        \* the exception tick() is leaving with, "None" if none
  exit_cause,      \* the exception that ended run(), "None" while it runs
  \* ---- history of the tick in progress and of the run
  tick_prev,       \* prev_state when the tick began
  read_outcome,    \* "pending" | "ok" | "transport_error" | "protocol_error"
  tick_writes,     \* the arguments of the tick's set_relay_state calls, in order
  write_outcome,   \* "none" | "pending" | "sent" | "transport_error" | "KeyError"
  n_changes,       \* ticks that detected a leader change (up to MaxCount)
  n_writes,        \* set_relay_state calls (up to MaxCount)
  unmirrored,      \* <<s>>: the write of s failed and the leader has reported s since
  observed,        \* a leader read succeeded in an earlier tick since start or wake
  slept_from,      \* <<v>>: the last wake found prev_state at v, no read succeeded since
  \* ---- plug_blink.main
  blink_pc,        \* where main stands
  blinks,          \* args.blinks
  delay,           \* args.delay, in milliseconds
  original_relay_state,  \* main's local, Unknown while unassigned
  current_state,   \* main's local, Unknown while unassigned
  blink_i,         \* the i of the for loop
  blink_exc,       \* the exception main caught, "None" if none
  last_written,    \* <<s>>: the state of the last command the plug was sent
  restoring,       \* the write after the loop was issued
  device_failed    \* a device operation of main raised

codec_vars == <<codec_pc, plaintext, encrypted, decrypted>>

sched_vars == <<sched_pc, sched, sched_now, active_result, wait_result>>

run_vars == <<pc, prev_state, clock, wait_seconds, leader_state, conn, tick_exc,
              exit_cause>>

hist_vars == <<tick_prev, read_outcome, tick_writes, write_outcome, n_changes,
               n_writes, unmirrored, observed, slept_from>>

tracker_vars == <<run_vars, hist_vars>>

blink_vars == <<blink_pc, blinks, delay, original_relay_state, current_state,
                blink_i, blink_exc, last_written, restoring, device_failed>>

vars == <<codec_vars, sched_vars, tracker_vars, blink_vars>>

(***************************************************************************)
(* Bounds of the model                                                     *)
(***************************************************************************)
\* longest string handed to the codec
MaxLen == 3

\* resolution of the clock: instants per second (datetime has 10^6)
TicksPerSec == 2

\* the day, scaled down: seconds in a minute and minutes in a day
SecPerMin == 2
MinPerDay == 3

\* most windows in a schedule
MaxWindows == 2

\* calendar dates 0..MaxDate of the instants handed to the scheduler
MaxDate == 1

\* the relay_state values a device may answer are -1..MaxDeviceValue
MaxDeviceValue == 2

\* a sleep overshoots by up to MaxLag ticks
MaxLag == 1

\* the counters of the run's history stop at MaxCount
MaxCount == 2

\* most blinks asked for, and the longest delay, in milliseconds
MaxBlinks == 3
MaxDelay == 1

(***************************************************************************)
(* Python values                                                           *)
(***************************************************************************)
\* int ^ int on non-negative Python ints (arbitrary width)
RECURSIVE Xor(_, _)
Xor(a, b) ==
  IF a = 0 THEN b
  ELSE IF b = 0 THEN a
  ELSE (((a % 2) + (b % 2)) % 2) + (2 * Xor(a \div 2, b \div 2))

\* the largest value bytes([a]) accepts
ByteMax == 255

\* a returned value, or the exception a call raised
Returned(v) == [exc |-> "None", value |-> v]
Raised(e) == [exc |-> e, value |-> <<>>]

\* struct.pack('>I', n): four bytes, most significant first
pack_I(n) ==
  << (n \div 16777216) % 256, (n \div 65536) % 256, (n \div 256) % 256, n % 256 >>

\* the unsigned integer four big-endian bytes stand for
unpack_I(b) == ((b[1] * 256 + b[2]) * 256 + b[3]) * 256 + b[4]

\* data[4:]
Slice4(data) == SubSeq(data, 5, Len(data))

(***************************************************************************)
(* Codec: encrypt / decrypt                                                *)
(***************************************************************************)
\* the seed both directions start from (key = 171)
InitialKey == 171

\* a mutation of encrypt's loop: the key advances on the input character
RECURSIVE encrypt_loop_KeyFromInput(_, _, _)
encrypt_loop_KeyFromInput(string, key, result) ==
  IF string = <<>> THEN Returned(result)
  ELSE LET a == Xor(key, Head(string)) IN
       IF a > ByteMax THEN Raised("ValueError")
       ELSE encrypt_loop_KeyFromInput(Tail(string), Head(string), Append(result, a))

\* the for loop of encrypt: a = key ^ ord(i); key = a; result += bytes([a])
\* bytes([a]) raises ValueError when a is not in range(0, 256)
RECURSIVE encrypt_loop(_, _, _)
encrypt_loop(string, key, result) ==
  IF string = <<>> THEN Returned(result)
  ELSE LET a == Xor(key, Head(string)) IN
       IF a > ByteMax THEN Raised("ValueError")
       ELSE encrypt_loop(Tail(string), a, Append(result, a))

encrypt(string) == encrypt_loop(string, InitialKey, pack_I(Len(string)))

\* the for loop of decrypt: a = key ^ i; key = i; result += chr(a)
RECURSIVE decrypt_loop(_, _, _)
decrypt_loop(string, key, result) ==
  IF string = <<>> THEN result
  ELSE LET a == Xor(key, Head(string)) IN
       decrypt_loop(Tail(string), Head(string), Append(result, a))

decrypt(string) == decrypt_loop(string, InitialKey, <<>>)

(***************************************************************************)
(* Time: an instant is a number of ticks; a time of day is the ticks since *)
(* midnight; a datetime is [date, time]                                    *)
(***************************************************************************)
TicksPerMin == TicksPerSec * SecPerMin
DayTicks == TicksPerMin * MinPerDay

TimesOfDay == 0..(DayTicks - 1)

\* the times of day HH:MM that parse_time_range produces
MinuteMarks == {m * TicksPerMin : m \in 0..(MinPerDay - 1)}

\* datetime.combine(date, time)
combine(d, t) == [date |-> d, time |-> t]

\* a - b for two datetimes, in ticks, a day being day_ticks long
datetime_sub(a, b, day_ticks) == (a.date - b.date) * day_ticks + (a.time - b.time)

(***************************************************************************)
(* Scheduler                                                               *)
(***************************************************************************)
\* (start, end) pairs as --active HH:MM-HH:MM gives them
Windows == MinuteMarks \X MinuteMarks

\* a mutation of __init__: the empty schedule is not told apart
Scheduler_NeverAlways(active_windows) ==
  [active_windows |-> active_windows, always_active |-> FALSE]

\* Scheduler.__init__
Scheduler(active_windows) ==
  [active_windows |-> active_windows, always_active |-> Len(active_windows) = 0]

\* a mutation of is_active's loop: the end of a window is excluded
RECURSIVE is_active_loop_EndExclusive(_, _)
is_active_loop_EndExclusive(windows, current_time) ==
  IF windows = <<>> THEN FALSE
  ELSE LET start == Head(windows)[1]
           end == Head(windows)[2]
       IN IF start <= end
          THEN IF start <= current_time /\ current_time < end
               THEN TRUE
               ELSE is_active_loop_EndExclusive(Tail(windows), current_time)
          ELSE IF current_time >= start \/ current_time < end
               THEN TRUE
               ELSE is_active_loop_EndExclusive(Tail(windows), current_time)

\* the for loop of is_active: the first window that holds current_time
\* returns True; falling off the list returns False
RECURSIVE is_active_loop(_, _)
is_active_loop(windows, current_time) ==
  IF windows = <<>> THEN FALSE
  ELSE LET start == Head(windows)[1]
           end == Head(windows)[2]
       IN IF start <= end
          THEN IF start <= current_time /\ current_time <= end
               THEN TRUE
               ELSE is_active_loop(Tail(windows), current_time)
          ELSE IF current_time >= start \/ current_time <= end
               THEN TRUE
               ELSE is_active_loop(Tail(windows), current_time)

is_active(self, current_time) ==
  IF self.always_active THEN TRUE
  ELSE is_active_loop(self.active_windows, current_time)

\* a mutation of the loop below: a start equal to now counts as today's
RECURSIVE next_active_loop_StartNotStrict(_, _, _, _)
next_active_loop_StartNotStrict(windows, current_dt, day_ticks, acc) ==
  IF windows = <<>> THEN acc
  ELSE LET start == Head(windows)[1]
           next_start == IF start >= current_dt.time
                         THEN combine(current_dt.date, start)
                         ELSE combine(current_dt.date + 1, start)
           wait == datetime_sub(next_start, current_dt, day_ticks)
           acc2 == IF ~acc.found_window \/ wait < acc.min_wait
                   THEN [min_wait |-> wait, found_window |-> TRUE]
                   ELSE acc
       IN next_active_loop_StartNotStrict(Tail(windows), current_dt, day_ticks, acc2)

\* the for loop of seconds_until_next_active, over the windows left; acc is
\* [min_wait, found_window], min_wait meaning float('inf') while nothing was
\* found, so that `wait < min_wait_seconds` is ~found_window \/ wait < min_wait
RECURSIVE next_active_loop(_, _, _, _)
next_active_loop(windows, current_dt, day_ticks, acc) ==
  IF windows = <<>> THEN acc
  ELSE LET start == Head(windows)[1]
           next_start == IF start > current_dt.time
                         THEN combine(current_dt.date, start)
                         ELSE combine(current_dt.date + 1, start)
           wait == datetime_sub(next_start, current_dt, day_ticks)
           acc2 == IF ~acc.found_window \/ wait < acc.min_wait
                   THEN [min_wait |-> wait, found_window |-> TRUE]
                   ELSE acc
       IN next_active_loop(Tail(windows), current_dt, day_ticks, acc2)

\* seconds_until_next_active with the calendar's units as parameters: a day
\* of day_ticks ticks, ticks_per_sec ticks in a second; int() drops the
\* fraction of a second
seconds_until_next_active_in(self, current_dt, day_ticks, ticks_per_sec) ==
  IF self.always_active THEN 0
  ELSE LET acc == next_active_loop(self.active_windows, current_dt, day_ticks,
                                   [min_wait |-> 0, found_window |-> FALSE])
       IN IF acc.found_window THEN acc.min_wait \div ticks_per_sec ELSE 0

seconds_until_next_active(self, current_dt) ==
  seconds_until_next_active_in(self, current_dt, DayTicks, TicksPerSec)

(***************************************************************************)
(* Exceptions: the classes the handlers name                               *)
(***************************************************************************)
\* socket.error is OSError; socket.timeout and ConnectionRefusedError are
\* subclasses of it
SocketErrors == {"OSError", "ConnectionRefusedError", "timeout"}

\* what a failing connect raises, and what a failing send or recv raises
ConnectErrors == {"ConnectionRefusedError", "timeout"}
TransferErrors == {"OSError", "timeout"}

\* the subclasses of Exception the model raises; KeyboardInterrupt is a
\* BaseException and not among them
Exceptions == SocketErrors \cup {"ValueError", "KeyError", "TypeError"}

tick_catches_Exception(e) == e \in Exceptions

\* tick: except (socket.error, socket.timeout)
tick_catches_Nothing(e) == FALSE

tick_catches(e) == e \in SocketErrors

\* run: except Exception
run_catches_SocketErrors(e) == e \in SocketErrors

run_catches(e) == e \in Exceptions

(***************************************************************************)
(* SmartPlugClient                                                         *)
(***************************************************************************)
\* self.prev_state = -1
Unknown == -1

\* the keys of COMMANDS['state']
\* the two devices of a tracker
Devices == {"leader", "follower"}

\* _connect: socket.socket(...) makes one more socket of the client
created(socks, device) == socks \cup {device}

close_Never(socks, device) == socks

\* the finally of get_relay_state and of set_relay_state: sock.close()
close(socks, device) == socks \ {device}

\* a socket object nothing refers to any more is closed by its finalizer
finalize(socks, device) == socks \ {device}

RelayStates == {0, 1}

\* what the relay_state field of a device's answer may hold
DeviceValues == Unknown..MaxDeviceValue

\* what sock.recv(2048) may return: nothing, bytes that do not decrypt to a
\* JSON document, a document that is no object, an object without
\* system.get_sysinfo.relay_state, or an object with the field
Responses ==
  {[kind |-> k, value |-> 0] : k \in {"empty", "garbage", "not_object", "no_field"}}
    \cup {[kind |-> "relay_state", value |-> v] : v \in DeviceValues}

\* get_relay_state after recv: decrypt(data[4:]), json.loads, the field
parse_response(r) ==
  CASE r.kind \in {"empty", "garbage"} -> Raised("ValueError")
    [] r.kind = "not_object" -> Raised("TypeError")
    [] r.kind = "no_field" -> Raised("KeyError")
    [] OTHER -> [exc |-> "None", value |-> r.value]

\* how a failed leader read is told apart in the history of a tick
failure_kind(r) == IF r.kind = "empty" THEN "empty_receive" ELSE "protocol_error"

(***************************************************************************)
(* PlugTracker                                                             *)
(***************************************************************************)
PauseSeconds == 1
BackoffSeconds == 5

\* tick: leader_state != self.prev_state and self.prev_state != -1
should_write_FirstObservationToo(leader, prev) == leader # prev

should_write_Always(leader, prev) == TRUE

should_write_AnyKnown(leader, prev) == prev # Unknown

should_write(leader, prev) == leader # prev /\ prev # Unknown

\* tick: self.prev_state = leader_state, after the try/except of the write
prev_after_write_OnlyIfSent(outcome, leader, prev) ==
  IF outcome = "sent" THEN leader ELSE prev

prev_after_write(outcome, leader, prev) == leader

\* run: self.prev_state = -1 after the scheduler sleep
prev_on_wake_Kept(prev) == prev

prev_on_wake(prev) == Unknown

\* history: a leader change is detected when a read succeeds with a state
\* other than the known previous one
LeaderChanged == prev_state # Unknown /\ leader_state # prev_state

\* a counter of the history, which stops at MaxCount
Inc(n) == IF n < MaxCount THEN n + 1 ELSE n

\* the clock after time.sleep(seconds) that overshot by lag ticks
after_sleep(t, seconds, lag) == (t + seconds * TicksPerSec + lag) % DayTicks

TickPcs == {"leader_connect", "leader_abandoned", "leader_exchange", "compare",
            "follower_connect", "follower_abandoned", "follower_send"}

\* the schedules a tracker is run with: no window, or one
TrackerSchedules == {Scheduler(<<>>)} \cup {Scheduler(<<w>>) : w \in Windows}

\* the history of a tick before the tick has begun
NoTick ==
  /\ leader_state' = Unknown
  /\ tick_exc' = "None"
  /\ tick_prev' = Unknown
  /\ read_outcome' = "pending"
  /\ tick_writes' = <<>>
  /\ write_outcome' = "none"

BlinkIdle ==
  /\ blink_pc = "off"
  /\ blinks = 0
  /\ delay = 0
  /\ original_relay_state = Unknown
  /\ current_state = Unknown
  /\ blink_i = 0
  /\ blink_exc = "None"
  /\ last_written = <<>>
  /\ restoring = FALSE
  /\ device_failed = FALSE

CodecIdle ==
  /\ codec_pc = "off"
  /\ plaintext = <<>>
  /\ encrypted = Returned(<<>>)
  /\ decrypted = <<>>

TrackerIdle ==
  /\ pc = "off"
  /\ prev_state = Unknown
  /\ clock = 0
  /\ wait_seconds = 0
  /\ leader_state = Unknown
  /\ conn = {}
  /\ tick_exc = "None"
  /\ exit_cause = "None"
  /\ tick_prev = Unknown
  /\ read_outcome = "pending"
  /\ tick_writes = <<>>
  /\ write_outcome = "none"
  /\ n_changes = 0
  /\ n_writes = 0
  /\ unmirrored = <<>>
  /\ observed = FALSE
  /\ slept_from = <<>>

\* PlugTracker.__init__, and run about to start
Init ==
  /\ pc = "loop"
  /\ prev_state = Unknown
  /\ clock \in TimesOfDay
  /\ sched \in TrackerSchedules
  /\ wait_seconds = 0
  /\ leader_state = Unknown
  /\ conn = {}
  /\ tick_exc = "None"
  /\ exit_cause = "None"
  /\ tick_prev = Unknown
  /\ read_outcome = "pending"
  /\ tick_writes = <<>>
  /\ write_outcome = "none"
  /\ n_changes = 0
  /\ n_writes = 0
  /\ unmirrored = <<>>
  /\ observed = FALSE
  /\ slept_from = <<>>
  /\ sched_pc = "off"
  /\ sched_now = combine(0, 0)
  /\ active_result = FALSE
  /\ wait_result = 0
  /\ CodecIdle
  /\ BlinkIdle

run_skips_tick_Never(active) == FALSE

\* run: if not self.scheduler.is_active(now.time()): ... continue
run_skips_tick(active) == ~active

\* run: now = datetime.now(); the scheduler is not active
LoopInactive ==
  /\ pc = "loop"
  /\ run_skips_tick(is_active(sched, clock))
  /\ wait_seconds' = seconds_until_next_active(sched, combine(0, clock))
  /\ pc' = "sleeping"
  /\ UNCHANGED <<prev_state, clock, leader_state, conn, tick_exc, exit_cause>>
  /\ UNCHANGED hist_vars

\* run: now = datetime.now(); the scheduler is active and tick() is entered
LoopActive ==
  /\ pc = "loop"
  /\ ~run_skips_tick(is_active(sched, clock))
  /\ pc' = "leader_connect"
  /\ tick_prev' = prev_state
  /\ UNCHANGED <<prev_state, clock, wait_seconds, leader_state, conn, tick_exc,
                 exit_cause>>
  /\ UNCHANGED <<read_outcome, tick_writes, write_outcome, n_changes, n_writes,
                 unmirrored, observed, slept_from>>

\* run: time.sleep(wait_seconds); self.prev_state = -1; continue
WakeUp ==
  /\ pc = "sleeping"
  /\ \E lag \in 0..MaxLag : clock' = after_sleep(clock, wait_seconds, lag)
  /\ prev_state' = prev_on_wake(prev_state)
  /\ wait_seconds' = 0
  /\ pc' = "loop"
  /\ observed' = FALSE
  /\ slept_from' = <<prev_state>>
  /\ UNCHANGED <<leader_state, conn, tick_exc, exit_cause>>
  /\ UNCHANGED <<tick_prev, read_outcome, tick_writes, write_outcome, n_changes,
                 n_writes, unmirrored>>

\* the leader read has raised e: tick's handler returns, or e leaves tick
LeaderReadRaises(e, kind) ==
  /\ read_outcome' = kind
  /\ tick_exc' = IF tick_catches(e) THEN "None" ELSE e
  /\ pc' = "tick_end"
  /\ conn' = IF pc = "leader_abandoned" THEN finalize(conn, "leader")
             ELSE close(conn, "leader")
  /\ UNCHANGED <<prev_state, clock, wait_seconds, leader_state, exit_cause>>
  /\ UNCHANGED <<tick_prev, tick_writes, write_outcome, n_changes, n_writes,
                 unmirrored, observed, slept_from>>

\* get_relay_state: _connect creates the socket and connect() is refused or
\* times out; _connect has no handler and the try of get_relay_state is not
\* entered yet, so the exception leaves with the socket created and not closed
LeaderConnectFails ==
  /\ pc = "leader_connect"
  /\ conn' = created(conn, "leader")
  /\ \E e \in ConnectErrors : tick_exc' = e
  /\ pc' = "leader_abandoned"
  /\ UNCHANGED <<prev_state, clock, wait_seconds, leader_state, exit_cause>>
  /\ UNCHANGED hist_vars

\* tick: the handler of the failed connect ends; the exception, its traceback
\* and the frame of _connect are dropped, and with them the socket object
LeaderSocketDropped ==
  /\ pc = "leader_abandoned"
  /\ LeaderReadRaises(tick_exc, "transport_error")

\* get_relay_state: self._connect() returns the socket
LeaderConnectOk ==
  /\ pc = "leader_connect"
  /\ conn' = created(conn, "leader")
  /\ pc' = "leader_exchange"
  /\ UNCHANGED <<prev_state, clock, wait_seconds, leader_state, tick_exc,
                 exit_cause>>
  /\ UNCHANGED hist_vars

\* get_relay_state: send or recv raises; finally closes the socket
LeaderTransferFails ==
  /\ pc = "leader_exchange"
  /\ \E e \in TransferErrors : LeaderReadRaises(e, "transport_error")

\* get_relay_state: recv returns bytes that do not yield the field
LeaderAnswerRejected ==
  /\ pc = "leader_exchange"
  /\ \E r \in Responses :
       /\ parse_response(r).exc # "None"
       /\ LeaderReadRaises(parse_response(r).exc, failure_kind(r))

\* get_relay_state returns the field; finally closes the socket
LeaderAnswerRead ==
  /\ pc = "leader_exchange"
  /\ \E r \in Responses :
       /\ parse_response(r).exc = "None"
       /\ leader_state' = parse_response(r).value
       /\ unmirrored' = IF unmirrored # <<>> /\ unmirrored[1] # parse_response(r).value
                        THEN <<>> ELSE unmirrored
  /\ read_outcome' = "ok"
  /\ conn' = close(conn, "leader")
  /\ pc' = "compare"
  /\ UNCHANGED <<prev_state, clock, wait_seconds, tick_exc, exit_cause>>
  /\ UNCHANGED <<tick_prev, tick_writes, write_outcome, n_changes, n_writes,
                 observed, slept_from>>

\* tick: the leader changed and a previous state is known: go and write
CompareChanged ==
  /\ pc = "compare"
  /\ should_write(leader_state, prev_state)
  /\ n_changes' = IF LeaderChanged THEN Inc(n_changes) ELSE n_changes
  /\ write_outcome' = "pending"
  /\ pc' = "follower_connect"
  /\ UNCHANGED <<prev_state, clock, wait_seconds, leader_state, conn, tick_exc,
                 exit_cause>>
  /\ UNCHANGED <<tick_prev, read_outcome, tick_writes, n_writes, unmirrored,
                 observed, slept_from>>

\* tick: the first observation since start or wake is only recorded
CompareFirstObservation ==
  /\ pc = "compare"
  /\ ~should_write(leader_state, prev_state)
  /\ leader_state # prev_state
  /\ prev_state' = leader_state
  /\ pc' = "tick_end"
  /\ UNCHANGED <<clock, wait_seconds, leader_state, conn, tick_exc, exit_cause>>
  /\ n_changes' = IF LeaderChanged THEN Inc(n_changes) ELSE n_changes
  /\ UNCHANGED <<tick_prev, read_outcome, tick_writes, write_outcome, n_writes,
                 unmirrored, observed, slept_from>>

\* tick: the leader is as it was
CompareUnchanged ==
  /\ pc = "compare"
  /\ ~should_write(leader_state, prev_state)
  /\ leader_state = prev_state
  /\ pc' = "tick_end"
  /\ UNCHANGED <<prev_state, clock, wait_seconds, leader_state, conn, tick_exc,
                 exit_cause>>
  /\ n_changes' = IF LeaderChanged THEN Inc(n_changes) ELSE n_changes
  /\ UNCHANGED <<tick_prev, read_outcome, tick_writes, write_outcome, n_writes,
                 unmirrored, observed, slept_from>>

\* the follower write has raised e: tick's handler logs it and tick goes on
\* to self.prev_state = leader_state, or e leaves tick
FollowerWriteRaises(e, outcome) ==
  /\ write_outcome' = outcome
  /\ tick_exc' = IF tick_catches(e) THEN "None" ELSE e
  /\ prev_state' = IF tick_catches(e)
                   THEN prev_after_write(outcome, leader_state, prev_state)
                   ELSE prev_state
  /\ unmirrored' = IF outcome = "transport_error" THEN <<leader_state>> ELSE unmirrored
  /\ conn' = IF pc = "follower_abandoned" THEN finalize(conn, "follower")
             ELSE close(conn, "follower")
  /\ pc' = "tick_end"

\* set_relay_state(leader_state): _connect creates the socket and connect()
\* is refused or times out; the exception leaves with the socket not closed
FollowerConnectFails ==
  /\ pc = "follower_connect"
  /\ tick_writes' = Append(tick_writes, leader_state)
  /\ n_writes' = Inc(n_writes)
  /\ conn' = created(conn, "follower")
  /\ \E e \in ConnectErrors : tick_exc' = e
  /\ pc' = "follower_abandoned"
  /\ UNCHANGED <<prev_state, clock, wait_seconds, leader_state, exit_cause>>
  /\ UNCHANGED <<tick_prev, read_outcome, write_outcome, n_changes, unmirrored,
                 observed, slept_from>>

\* tick: the handler of the failed connect ends and the socket object is
\* dropped; tick goes on to record the state
FollowerSocketDropped ==
  /\ pc = "follower_abandoned"
  /\ FollowerWriteRaises(tick_exc, "transport_error")
  /\ UNCHANGED <<clock, wait_seconds, leader_state, exit_cause>>
  /\ UNCHANGED <<tick_prev, read_outcome, tick_writes, n_changes, n_writes,
                 observed, slept_from>>

\* set_relay_state(leader_state): self._connect() returns the socket
FollowerConnectOk ==
  /\ pc = "follower_connect"
  /\ tick_writes' = Append(tick_writes, leader_state)
  /\ n_writes' = Inc(n_writes)
  /\ conn' = created(conn, "follower")
  /\ pc' = "follower_send"
  /\ UNCHANGED <<prev_state, clock, wait_seconds, leader_state, tick_exc,
                 exit_cause>>
  /\ UNCHANGED <<tick_prev, read_outcome, write_outcome, n_changes, unmirrored,
                 observed, slept_from>>

\* set_relay_state: COMMANDS['state'][state] has no such key; finally closes
FollowerCommandMissing ==
  /\ pc = "follower_send"
  /\ leader_state \notin RelayStates
  /\ FollowerWriteRaises("KeyError", "KeyError")
  /\ UNCHANGED <<clock, wait_seconds, leader_state, exit_cause>>
  /\ UNCHANGED <<tick_prev, read_outcome, tick_writes, n_changes, n_writes,
                 observed, slept_from>>

\* set_relay_state: sock.send raises; finally closes
FollowerSendFails ==
  /\ pc = "follower_send"
  /\ leader_state \in RelayStates
  /\ \E e \in TransferErrors : FollowerWriteRaises(e, "transport_error")
  /\ UNCHANGED <<clock, wait_seconds, leader_state, exit_cause>>
  /\ UNCHANGED <<tick_prev, read_outcome, tick_writes, n_changes, n_writes,
                 observed, slept_from>>

\* set_relay_state: the command is sent; finally closes; tick records the state
FollowerSent ==
  /\ pc = "follower_send"
  /\ leader_state \in RelayStates
  /\ write_outcome' = "sent"
  /\ prev_state' = prev_after_write("sent", leader_state, prev_state)
  /\ conn' = close(conn, "follower")
  /\ pc' = "tick_end"
  /\ UNCHANGED <<clock, wait_seconds, leader_state, tick_exc, exit_cause>>
  /\ UNCHANGED <<tick_prev, read_outcome, tick_writes, n_changes, n_writes,
                 unmirrored, observed, slept_from>>

\* what the end of a tick leaves in the history of the run
TickOver ==
  /\ observed' = (observed \/ read_outcome = "ok")
  /\ slept_from' = IF read_outcome = "ok" THEN <<>> ELSE slept_from
  /\ UNCHANGED <<tick_prev, read_outcome, tick_writes, write_outcome, n_changes,
                 n_writes, unmirrored>>

\* run: tick() returned
TickReturned ==
  /\ pc = "tick_end"
  /\ tick_exc = "None"
  /\ pc' = "pause"
  /\ TickOver
  /\ UNCHANGED <<prev_state, clock, wait_seconds, leader_state, conn, tick_exc,
                 exit_cause>>

\* run: except Exception: log the error
TickErrorCaught ==
  /\ pc = "tick_end"
  /\ tick_exc # "None"
  /\ run_catches(tick_exc)
  /\ pc' = "backoff"
  /\ TickOver
  /\ UNCHANGED <<prev_state, clock, wait_seconds, leader_state, conn, tick_exc,
                 exit_cause>>

\* run: the exception is no Exception and leaves run
TickErrorEscapes ==
  /\ pc = "tick_end"
  /\ tick_exc # "None"
  /\ ~run_catches(tick_exc)
  /\ pc' = "exited"
  /\ exit_cause' = tick_exc
  /\ TickOver
  /\ UNCHANGED <<prev_state, clock, wait_seconds, leader_state, conn, tick_exc>>

\* run: time.sleep(5) in the handler
Backoff ==
  /\ pc = "backoff"
  /\ \E lag \in 0..MaxLag : clock' = after_sleep(clock, BackoffSeconds, lag)
  /\ pc' = "pause"
  /\ UNCHANGED <<prev_state, wait_seconds, leader_state, conn, tick_exc, exit_cause>>
  /\ UNCHANGED hist_vars

\* run: time.sleep(1), and the next iteration
Pause ==
  /\ pc = "pause"
  /\ \E lag \in 0..MaxLag : clock' = after_sleep(clock, PauseSeconds, lag)
  /\ pc' = "loop"
  /\ NoTick
  /\ UNCHANGED <<prev_state, wait_seconds, conn, exit_cause>>
  /\ UNCHANGED <<n_changes, n_writes, unmirrored, observed, slept_from>>

\* KeyboardInterrupt while tick() runs: no handler of tick names it, the
\* finally of the client closes the socket
InterruptInTick ==
  /\ pc \in TickPcs
  /\ tick_exc' = "KeyboardInterrupt"
  /\ conn' = {}
  /\ pc' = "tick_end"
  /\ UNCHANGED <<prev_state, clock, wait_seconds, leader_state, exit_cause>>
  /\ UNCHANGED hist_vars

\* KeyboardInterrupt while run is outside the try: it leaves run
InterruptOutsideTick ==
  /\ pc \in {"loop", "sleeping", "backoff", "pause"}
  /\ pc' = "exited"
  /\ exit_cause' = "KeyboardInterrupt"
  /\ UNCHANGED <<prev_state, clock, wait_seconds, leader_state, conn, tick_exc>>
  /\ UNCHANGED hist_vars

\* the steps of the program itself
Step ==
  \/ LoopInactive
  \/ LoopActive
  \/ WakeUp
  \/ LeaderConnectFails
  \/ LeaderSocketDropped
  \/ LeaderConnectOk
  \/ LeaderTransferFails
  \/ LeaderAnswerRejected
  \/ LeaderAnswerRead
  \/ CompareChanged
  \/ CompareFirstObservation
  \/ CompareUnchanged
  \/ FollowerConnectFails
  \/ FollowerSocketDropped
  \/ FollowerConnectOk
  \/ FollowerCommandMissing
  \/ FollowerSendFails
  \/ FollowerSent
  \/ TickReturned
  \/ TickErrorCaught
  \/ TickErrorEscapes
  \/ Backoff
  \/ Pause

\* the harnesses of the codec and of the scheduler stand still
HarnessIdle ==
  UNCHANGED <<codec_vars, sched_pc, sched_now, active_result, wait_result, blink_vars>>

Next ==
  \/ LoopInactive /\ UNCHANGED sched /\ HarnessIdle
  \/ LoopActive /\ UNCHANGED sched /\ HarnessIdle
  \/ WakeUp /\ UNCHANGED sched /\ HarnessIdle
  \/ LeaderConnectFails /\ UNCHANGED sched /\ HarnessIdle
  \/ LeaderSocketDropped /\ UNCHANGED sched /\ HarnessIdle
  \/ LeaderConnectOk /\ UNCHANGED sched /\ HarnessIdle
  \/ LeaderTransferFails /\ UNCHANGED sched /\ HarnessIdle
  \/ LeaderAnswerRejected /\ UNCHANGED sched /\ HarnessIdle
  \/ LeaderAnswerRead /\ UNCHANGED sched /\ HarnessIdle
  \/ CompareChanged /\ UNCHANGED sched /\ HarnessIdle
  \/ CompareFirstObservation /\ UNCHANGED sched /\ HarnessIdle
  \/ CompareUnchanged /\ UNCHANGED sched /\ HarnessIdle
  \/ FollowerConnectFails /\ UNCHANGED sched /\ HarnessIdle
  \/ FollowerSocketDropped /\ UNCHANGED sched /\ HarnessIdle
  \/ FollowerConnectOk /\ UNCHANGED sched /\ HarnessIdle
  \/ FollowerCommandMissing /\ UNCHANGED sched /\ HarnessIdle
  \/ FollowerSendFails /\ UNCHANGED sched /\ HarnessIdle
  \/ FollowerSent /\ UNCHANGED sched /\ HarnessIdle
  \/ TickReturned /\ UNCHANGED sched /\ HarnessIdle
  \/ TickErrorCaught /\ UNCHANGED sched /\ HarnessIdle
  \/ TickErrorEscapes /\ UNCHANGED sched /\ HarnessIdle
  \/ Backoff /\ UNCHANGED sched /\ HarnessIdle
  \/ Pause /\ UNCHANGED sched /\ HarnessIdle
  \/ InterruptInTick /\ UNCHANGED sched /\ HarnessIdle
  \/ InterruptOutsideTick /\ UNCHANGED sched /\ HarnessIdle

Spec == Init /\ [][Next]_vars

\* a process that is not interrupted keeps running
LiveSpec == Spec /\ WF_vars(Step /\ UNCHANGED sched /\ HarnessIdle)

(***************************************************************************)
(* Scheduler harness: a schedule and an instant are chosen and the two     *)
(* methods called                                                          *)
(***************************************************************************)
Schedules == UNION {[1..n -> Windows] : n \in 0..MaxWindows}

Datetimes == [date : 0..MaxDate, time : TimesOfDay]

SchedIdle ==
  /\ sched_pc = "off"
  /\ sched = Scheduler(<<>>)
  /\ sched_now = combine(0, 0)
  /\ active_result = FALSE
  /\ wait_result = 0

SchedInit ==
  /\ sched_pc = "start"
  /\ sched \in {Scheduler(w) : w \in Schedules}
  /\ sched_now \in Datetimes
  /\ active_result = FALSE
  /\ wait_result = 0
  /\ CodecIdle
  /\ BlinkIdle
  /\ TrackerIdle

CallIsActive ==
  /\ sched_pc = "start"
  /\ active_result' = is_active(sched, sched_now.time)
  /\ sched_pc' = "checked"
  /\ UNCHANGED <<sched, sched_now, wait_result>>

CallSecondsUntilNextActive ==
  /\ sched_pc = "checked"
  /\ wait_result' = seconds_until_next_active(sched, sched_now)
  /\ sched_pc' = "done"
  /\ UNCHANGED <<sched, sched_now, active_result>>

SchedNext ==
  \/ CallIsActive /\ UNCHANGED <<codec_vars, tracker_vars, blink_vars>>
  \/ CallSecondsUntilNextActive /\ UNCHANGED <<codec_vars, tracker_vars, blink_vars>>

(***************************************************************************)
(* Codec harness: a string is chosen, encrypted, and the frame's payload   *)
(* decrypted                                                               *)
(***************************************************************************)
\* code points a str may hold: control, ASCII of the commands, the seed,
\* the last Latin-1 character, and characters past one byte
CodePoints == {0, 34, 123, 171, 255, 256, 8364}

Strings == UNION {[1..n -> CodePoints] : n \in 0..MaxLen}

IsByteString(s) == \A i \in 1..Len(s) : s[i] <= ByteMax

CodecInit ==
  /\ codec_pc = "start"
  /\ plaintext \in Strings
  /\ encrypted = Returned(<<>>)
  /\ decrypted = <<>>
  /\ SchedIdle
  /\ TrackerIdle
  /\ BlinkIdle

CallEncrypt ==
  /\ codec_pc = "start"
  /\ encrypted' = encrypt(plaintext)
  /\ codec_pc' = "encrypted"
  /\ UNCHANGED <<plaintext, decrypted>>

CallDecrypt ==
  /\ codec_pc = "encrypted"
  /\ encrypted.exc = "None"
  /\ decrypted' = decrypt(Slice4(encrypted.value))
  /\ codec_pc' = "decrypted"
  /\ UNCHANGED <<plaintext, encrypted>>

CodecNext ==
  \/ CallEncrypt /\ UNCHANGED <<sched_vars, tracker_vars, blink_vars>>
  \/ CallDecrypt /\ UNCHANGED <<sched_vars, tracker_vars, blink_vars>>

CodecSpec == CodecInit /\ [][CodecNext]_vars

SchedSpec == SchedInit /\ [][SchedNext]_vars

(***************************************************************************)
(* plug_blink.main: read the plug, toggle it args.blinks times, restore    *)
(***************************************************************************)
\* --delay is parsed with type=int: a negative number is accepted
MinDelay == -1

\* --blinks and --delay as argparse hands them over
BlinkCounts == (-1)..MaxBlinks
Delays == MinDelay..MaxDelay

\* current_state ^= 1 on a Python int: the lowest bit is flipped
xor_1(state) == IF state % 2 = 0 THEN state + 1 ELSE state - 1

\* main: except Exception as e: log, sys.exit(1)
BlinkRaises(e) ==
  /\ blink_exc' = e
  /\ blink_pc' = "exit_1"

BlinkInit ==
  /\ blink_pc = "start"
  /\ blinks \in BlinkCounts
  /\ delay \in Delays
  /\ original_relay_state = Unknown
  /\ current_state = Unknown
  /\ blink_i = 0
  /\ blink_exc = "None"
  /\ last_written = <<>>
  /\ restoring = FALSE
  /\ device_failed = FALSE
  /\ CodecIdle
  /\ SchedIdle
  /\ TrackerIdle

\* original_relay_state = plug.get_relay_state(); current_state = it
BlinkRead ==
  /\ blink_pc = "start"
  /\ \E r \in Responses :
       /\ parse_response(r).exc = "None"
       /\ original_relay_state' = parse_response(r).value
       /\ current_state' = parse_response(r).value
  /\ blink_pc' = "for"
  /\ UNCHANGED <<blinks, delay, blink_i, blink_exc, last_written, restoring,
                 device_failed>>

\* plug.get_relay_state() raises: the socket fails, or the answer does not
\* yield the field
BlinkReadFails ==
  /\ blink_pc = "start"
  /\ \/ \E e \in SocketErrors : BlinkRaises(e)
     \/ \E r \in Responses :
          /\ parse_response(r).exc # "None"
          /\ BlinkRaises(parse_response(r).exc)
  /\ device_failed' = TRUE
  /\ UNCHANGED <<blinks, delay, original_relay_state, current_state, blink_i,
                 last_written, restoring>>

\* for i in range(toggles): current_state ^= 1
BlinkToggle ==
  /\ blink_pc = "for"
  /\ blink_i < blinks
  /\ current_state' = xor_1(current_state)
  /\ blink_pc' = "set"
  /\ UNCHANGED <<blinks, delay, original_relay_state, blink_i, blink_exc,
                 last_written, restoring, device_failed>>

\* plug.set_relay_state(current_state) returns
BlinkSet ==
  /\ blink_pc = "set"
  /\ last_written' = <<current_state>>
  /\ blink_pc' = "sleep"
  /\ UNCHANGED <<blinks, delay, original_relay_state, current_state, blink_i,
                 blink_exc, restoring, device_failed>>

\* plug.set_relay_state(current_state) raises a socket error, before or after
\* the command has left
BlinkSetFails ==
  /\ blink_pc = "set"
  /\ \E e \in SocketErrors : BlinkRaises(e)
  /\ last_written' \in {last_written, <<current_state>>}
  /\ device_failed' = TRUE
  /\ UNCHANGED <<blinks, delay, original_relay_state, current_state, blink_i,
                 restoring>>

\* time.sleep(args.delay / 1000), and the next i
BlinkSleep ==
  /\ blink_pc = "sleep"
  /\ delay >= 0
  /\ blink_i' = blink_i + 1
  /\ blink_pc' = "for"
  /\ UNCHANGED <<blinks, delay, original_relay_state, current_state, blink_exc,
                 last_written, restoring, device_failed>>

\* time.sleep of a negative length raises ValueError
BlinkSleepRaises ==
  /\ blink_pc = "sleep"
  /\ delay < 0
  /\ BlinkRaises("ValueError")
  /\ UNCHANGED <<blinks, delay, original_relay_state, current_state, blink_i,
                 last_written, restoring, device_failed>>

\* the loop is over; if current_state != original_relay_state: go and restore
BlinkRestoreNeeded ==
  /\ blink_pc = "for"
  /\ ~(blink_i < blinks)
  /\ current_state # original_relay_state
  /\ restoring' = TRUE
  /\ blink_pc' = "restore"
  /\ UNCHANGED <<blinks, delay, original_relay_state, current_state, blink_i,
                 blink_exc, last_written, device_failed>>

\* the loop is over and current_state == original_relay_state: main returns
BlinkNoRestore ==
  /\ blink_pc = "for"
  /\ ~(blink_i < blinks)
  /\ current_state = original_relay_state
  /\ blink_pc' = "done"
  /\ UNCHANGED <<blinks, delay, original_relay_state, current_state, blink_i,
                 blink_exc, last_written, restoring, device_failed>>

\* plug.set_relay_state(original_relay_state) returns, and main with it
BlinkRestore ==
  /\ blink_pc = "restore"
  /\ last_written' = <<original_relay_state>>
  /\ blink_pc' = "done"
  /\ UNCHANGED <<blinks, delay, original_relay_state, current_state, blink_i,
                 blink_exc, restoring, device_failed>>

\* plug.set_relay_state(original_relay_state) raises a socket error
BlinkRestoreFails ==
  /\ blink_pc = "restore"
  /\ \E e \in SocketErrors : BlinkRaises(e)
  /\ last_written' \in {last_written, <<original_relay_state>>}
  /\ device_failed' = TRUE
  /\ UNCHANGED <<blinks, delay, original_relay_state, current_state, blink_i,
                 restoring>>

BlinkNext ==
  \/ BlinkRead /\ UNCHANGED <<codec_vars, sched_vars, tracker_vars>>
  \/ BlinkReadFails /\ UNCHANGED <<codec_vars, sched_vars, tracker_vars>>
  \/ BlinkToggle /\ UNCHANGED <<codec_vars, sched_vars, tracker_vars>>
  \/ BlinkSet /\ UNCHANGED <<codec_vars, sched_vars, tracker_vars>>
  \/ BlinkSetFails /\ UNCHANGED <<codec_vars, sched_vars, tracker_vars>>
  \/ BlinkSleep /\ UNCHANGED <<codec_vars, sched_vars, tracker_vars>>
  \/ BlinkSleepRaises /\ UNCHANGED <<codec_vars, sched_vars, tracker_vars>>
  \/ BlinkRestoreNeeded /\ UNCHANGED <<codec_vars, sched_vars, tracker_vars>>
  \/ BlinkNoRestore /\ UNCHANGED <<codec_vars, sched_vars, tracker_vars>>
  \/ BlinkRestore /\ UNCHANGED <<codec_vars, sched_vars, tracker_vars>>
  \/ BlinkRestoreFails /\ UNCHANGED <<codec_vars, sched_vars, tracker_vars>>

BlinkSpec == BlinkInit /\ [][BlinkNext]_vars

(***************************************************************************)
(* Claims about PlugTracker                                                *)
(***************************************************************************)
WritePcs == {"follower_connect", "follower_abandoned", "follower_send"}

\* the tick is over and was not cut short by KeyboardInterrupt
TickEnded == pc = "tick_end" /\ tick_exc # "KeyboardInterrupt"

\* C1: first observation -- whenever previous_leader_state is Unknown and
\* the leader read succeeds with state s, the tick attempts no follower write
\* and ends with previous_leader_state == s.
C1_FirstObservation ==
  (tick_prev = Unknown /\ read_outcome = "ok") =>
    /\ tick_writes = <<>>
    /\ pc \notin WritePcs
    /\ TickEnded => (tick_exc = "None" /\ prev_state = leader_state)

\* a tick that began Unknown has ended having read 0
C1_Witness ==
  /\ pc = "tick_end"
  /\ tick_exc = "None"
  /\ tick_prev = Unknown
  /\ read_outcome = "ok"
  /\ leader_state = 0
  /\ prev_state = 0

\* C2: detected change -- whenever previous_leader_state is 0 or 1 and the
\* leader read succeeds with a different state s (0 or 1), the tick attempts
\* exactly one follower write, its argument is s, and the tick ends with
\* previous_leader_state == s; over any sequence of ticks the number of
\* follower write attempts never exceeds the number of detected changes.
C2_DetectedChange ==
  /\ (/\ TickEnded
      /\ read_outcome = "ok"
      /\ tick_prev \in RelayStates
      /\ leader_state \in RelayStates
      /\ leader_state # tick_prev) =>
       /\ tick_exc = "None"
       /\ tick_writes = <<leader_state>>
       /\ prev_state = leader_state
  /\ Len(tick_writes) <= 1
  /\ n_writes <= n_changes

\* a tick that began at 0 has read 1, written 1 and ended, after an earlier
\* change had been mirrored too
C2_Witness ==
  /\ pc = "tick_end"
  /\ tick_prev = 0
  /\ read_outcome = "ok"
  /\ leader_state = 1
  /\ tick_writes = <<1>>
  /\ write_outcome = "sent"
  /\ prev_state = 1
  /\ n_writes = 2

\* C3: unchanged leader -- whenever the leader read succeeds with a state
\* equal to previous_leader_state, the tick attempts no follower write and
\* leaves previous_leader_state unchanged.
C3_UnchangedLeader ==
  (read_outcome = "ok" /\ leader_state = tick_prev) =>
    /\ tick_writes = <<>>
    /\ pc \notin WritePcs
    /\ prev_state = tick_prev
    /\ TickEnded => tick_exc = "None"

\* a tick that began at 1 has read 1 and ended
C3_Witness ==
  /\ pc = "tick_end"
  /\ tick_exc = "None"
  /\ read_outcome = "ok"
  /\ tick_prev = 1
  /\ leader_state = 1

\* C4: leader read failure -- when the leader read fails with a
\* TransportError (connection refused, connect/send/receive timeout), the
\* tick returns normally, previous_leader_state is unchanged and no follower
\* write is attempted, for every value of previous_leader_state.
C4_LeaderReadFailure ==
  (read_outcome = "transport_error") =>
    /\ pc \notin TickPcs
    /\ tick_exc = "None"
    /\ prev_state = tick_prev
    /\ tick_writes = <<>>

\* a tick that began at 1 has returned after its leader read failed
C4_Witness ==
  /\ pc = "pause"
  /\ read_outcome = "transport_error"
  /\ tick_prev = 1
  /\ prev_state = 1

\* C5: the loop never terminates because of a device failure -- whatever
\* TransportErrors and ProtocolErrors the leader reads and follower writes
\* meet, run() ends only by KeyboardInterrupt, and a run that is not
\* interrupted always reaches a further iteration.
C5_LoopSurvivesDeviceFailures ==
  /\ [](pc = "exited" => exit_cause = "KeyboardInterrupt")
  /\ []<>(pc \in {"loop", "exited"})

\* the loop is pausing after a tick whose leader read met a ProtocolError,
\* after an earlier follower write met a TransportError
C5_Witness ==
  /\ pc = "pause"
  /\ tick_exc \in {"ValueError", "KeyError", "TypeError"}
  /\ read_outcome = "protocol_error"
  /\ unmirrored # <<>>

\* C6: a failed follower write is not retried -- when the follower write
\* attempted for a detected change to s fails with a TransportError, the
\* tick still ends with previous_leader_state == s, and in every following
\* tick in which the leader still reports s no follower write is attempted.
C6_NoRetry ==
  /\ write_outcome = "transport_error" =>
       /\ pc \notin TickPcs
       /\ tick_exc = "None"
       /\ prev_state = leader_state
       /\ unmirrored = <<leader_state>>
  /\ pc \in WritePcs => unmirrored # <<leader_state>>
  /\ (unmirrored # <<>> /\ read_outcome = "ok" /\ leader_state = unmirrored[1]
        /\ write_outcome # "transport_error") => tick_writes = <<>>

\* the write of 1 failed in an earlier tick, and a later tick has read 1
\* again and ended without a write
C6_Witness ==
  /\ pc = "tick_end"
  /\ unmirrored = <<1>>
  /\ read_outcome = "ok"
  /\ leader_state = 1
  /\ write_outcome = "none"
  /\ tick_writes = <<>>

\* C7: reset on wake -- every iteration in which the scheduler reports
\* inactive ends, after the scheduler sleep, with previous_leader_state ==
\* Unknown whatever its value before the sleep; so the first successful
\* leader observation after a sleep triggers no follower write.
C7_ResetOnWake ==
  /\ (slept_from # <<>> /\ pc \in {"loop", "sleeping", "leader_connect",
                                   "leader_exchange"}) => prev_state = Unknown
  /\ (slept_from # <<>> /\ read_outcome = "ok") =>
       /\ tick_prev = Unknown
       /\ tick_writes = <<>>
       /\ pc \notin WritePcs

\* the sleep began with previous_leader_state at 1, and the first read after
\* the wake has returned 0 and the tick has ended without a write
C7_Witness ==
  /\ pc = "tick_end"
  /\ slept_from = <<1>>
  /\ read_outcome = "ok"
  /\ leader_state = 0
  /\ prev_state = 0
  /\ tick_writes = <<>>

(***************************************************************************)
(* Claims about the codec and the scheduler                                *)
(***************************************************************************)
\* C8: codec round trip -- for all strings s, including the empty string,
\* encrypt(s) returns a frame and decrypt(encrypt(s)[4:]) == s.
C8_RoundTripAllStrings ==
  /\ codec_pc # "start" => encrypted.exc = "None"
  /\ codec_pc = "decrypted" => decrypted = plaintext

\* The round trip on the strings the code can frame: every string whose
\* characters are all below 256 comes back unchanged.
C8_RoundTripByteStrings ==
  IsByteString(plaintext) =>
    /\ codec_pc # "start" => encrypted.exc = "None"
    /\ codec_pc = "decrypted" => decrypted = plaintext

\* C9: codec framing -- for every input s made of bytes, encrypt(s) is a
\* 4-byte big-endian length prefix equal to len(s) followed by exactly len(s)
\* bytes, where output byte i is input byte i XOR the previous output byte
\* (XOR the seed 171 for i = 0).
C9_Framing ==
  (codec_pc # "start" /\ IsByteString(plaintext)) =>
    /\ encrypted.exc = "None"
    /\ Len(encrypted.value) = 4 + Len(plaintext)
    /\ \A k \in 1..4 : encrypted.value[k] \in 0..ByteMax
    /\ unpack_I(encrypted.value) = Len(plaintext)
    /\ \A i \in 1..Len(plaintext) :
         encrypted.value[4 + i] =
           Xor(plaintext[i], IF i = 1 THEN 171 ELSE encrypted.value[4 + i - 1])

\* a string of MaxLen bytes has been framed
C9_Witness ==
  /\ codec_pc = "encrypted"
  /\ IsByteString(plaintext)
  /\ Len(plaintext) = MaxLen
  /\ plaintext[1] # plaintext[2]

\* the rule of the windows: some window holds t
C10_WindowRule(windows, t) ==
  \E i \in 1..Len(windows) :
    LET start == windows[i][1]
        end == windows[i][2]
    IN \/ start <= end /\ start <= t /\ t <= end
       \/ start > end /\ (t >= start \/ t <= end)

\* C10: with a non-empty schedule, is_active(t) is true iff some window
\* (start, end) has start <= end and start <= t <= end, or start > end and
\* (t >= start or t <= end); window (08:00,10:00), in minutes since midnight,
\* is active at 08:00, 09:00 and 10:00 and inactive at 07:59 and 10:01.
C10_IsActive ==
  /\ (sched_pc \in {"checked", "done"} /\ Len(sched.active_windows) > 0) =>
       (active_result <=> C10_WindowRule(sched.active_windows, sched_now.time))
  /\ LET s == Scheduler(<< <<480, 600>> >>)
     IN /\ is_active(s, 480) /\ is_active(s, 540) /\ is_active(s, 600)
        /\ ~is_active(s, 479) /\ ~is_active(s, 601)

\* is_active has answered for a schedule of two windows, the first of which
\* does not hold the instant and the second, wrapping past midnight, does
C10_Witness ==
  /\ sched_pc = "checked"
  /\ Len(sched.active_windows) = 2
  /\ ~C10_WindowRule(<<sched.active_windows[1]>>, sched_now.time)
  /\ sched.active_windows[2][1] > sched.active_windows[2][2]
  /\ active_result

\* C11: a Scheduler with an empty window list is always active --
\* is_active(t) is true for every time of day t and
\* seconds_until_next_active(now) returns 0 for every now.
C11_EmptySchedule ==
  Len(sched.active_windows) = 0 =>
    /\ sched_pc \in {"checked", "done"} => active_result
    /\ sched_pc = "done" => wait_result = 0
    /\ sched_pc = "off" \/ sched.always_active

\* both methods have answered for the empty schedule, late in the day
C11_Witness ==
  /\ sched_pc = "done"
  /\ sched.active_windows = <<>>
  /\ sched_now.time = DayTicks - 1
  /\ active_result
  /\ wait_result = 0

\* the ticks from the time of day t to the next occurrence of start: today
\* if start is strictly later than t, tomorrow otherwise
C12_TicksToStart(start, t) == IF start > t THEN start - t ELSE DayTicks - t + start

\* C12: with a non-empty schedule seconds_until_next_active(now) is the
\* minimum over all windows of the whole seconds from now to the next
\* occurrence of the window's start (today if the start is strictly later
\* than now's time of day, tomorrow otherwise), an integer >= 0; a day being
\* 86400 s, 07:00 with (08:00,10:00) gives 3600, 12:00 gives 72000, and with
\* (20:00,22:00) added 12:00 gives 28800.
C12_SecondsUntilNextActive ==
  /\ (sched_pc = "done" /\ Len(sched.active_windows) > 0) =>
       LET waits == {C12_TicksToStart(sched.active_windows[i][1], sched_now.time)
                       \div TicksPerSec : i \in 1..Len(sched.active_windows)}
       IN /\ wait_result \in waits
          /\ \A w \in waits : wait_result <= w
          /\ wait_result \in Nat
  /\ LET one == Scheduler(<< <<28800, 36000>> >>)
         two == Scheduler(<< <<28800, 36000>>, <<72000, 79200>> >>)
     IN /\ seconds_until_next_active_in(one, combine(0, 25200), 86400, 1) = 3600
        /\ seconds_until_next_active_in(one, combine(0, 43200), 86400, 1) = 72000
        /\ seconds_until_next_active_in(two, combine(0, 43200), 86400, 1) = 28800

\* the wait has been computed for two windows, the second of which starts
\* sooner, from an instant that is exactly the first window's start
C12_Witness ==
  /\ sched_pc = "done"
  /\ Len(sched.active_windows) = 2
  /\ sched.active_windows[1][1] = sched_now.time
  /\ sched.active_windows[2][1] > sched_now.time
  /\ wait_result = (sched.active_windows[2][1] - sched_now.time) \div TicksPerSec
  /\ wait_result > 0

(***************************************************************************)
(* Connection release                                                      *)
(***************************************************************************)
\* get_relay_state or set_relay_state is being executed
OperationPcs == {"leader_connect", "leader_exchange", "follower_connect",
                 "follower_send"}

\* C13: connection release -- every client operation closes the connection it
\* opened on every exit path, a refused or timed-out connect included: while
\* no operation is in progress, no socket created by the client is open.
C13_ConnectionsReleased == pc \notin OperationPcs => conn = {}

\* what does hold: an operation that got its connection closes it on every
\* exit path; a socket is left open only by a connect that failed
C13_ReleasedUnlessConnectFailed ==
  /\ pc \notin OperationPcs \cup {"leader_abandoned", "follower_abandoned"} => conn = {}
  /\ pc = "leader_abandoned" => conn = {"leader"} /\ tick_exc \in ConnectErrors
  /\ pc = "follower_abandoned" => conn = {"follower"} /\ tick_exc \in ConnectErrors

(***************************************************************************)
(* Empty receive                                                           *)
(***************************************************************************)
\* C14: empty receive is recovered at tick level -- when the leader's recv
\* returns no data the tick returns normally, with previous_leader_state
\* unchanged and no follower write, and the loop goes to the short pause
\* without the error backoff.
C14_EmptyReceiveAtTickLevel ==
  read_outcome = "empty_receive" =>
    /\ pc \notin TickPcs \cup {"backoff"}
    /\ tick_exc = "None"
    /\ tick_writes = <<>>
    /\ prev_state = tick_prev

\* what does hold: json.loads('') raises ValueError, which leaves tick and is
\* caught by run, so the backoff is taken; nothing is written or recorded
C14_EmptyReceiveLeavesTick ==
  read_outcome = "empty_receive" =>
    /\ pc \in {"tick_end", "backoff", "pause", "exited"}
    /\ tick_exc = "ValueError"
    /\ tick_writes = <<>>
    /\ prev_state = tick_prev

(***************************************************************************)
(* Protocol errors                                                         *)
(***************************************************************************)
ProtocolExceptions == {"ValueError", "KeyError", "TypeError"}

\* C15: ProtocolError handling -- when the leader's answer is not a parseable
\* document or lacks the relay-state field, the error is not handled inside
\* tick but reaches the outer catch of the loop: no follower write is
\* attempted, previous_leader_state is unchanged, and the loop takes the
\* backoff pause before the next leader read.
C15_ProtocolError ==
  /\ [](read_outcome = "protocol_error" =>
          /\ pc \in {"tick_end", "backoff", "pause", "exited"}
          /\ tick_exc \in ProtocolExceptions
          /\ tick_writes = <<>>
          /\ write_outcome = "none"
          /\ prev_state = tick_prev)
  /\ [][(read_outcome = "protocol_error" /\ pc = "tick_end") => pc' = "backoff"]_vars
  /\ [][(read_outcome = "protocol_error" /\ pc # "pause" /\ pc' = "pause") =>
          pc = "backoff"]_vars

\* the loop is in the backoff after the leader, seen on before, answered a
\* document without the relay-state field
C15_Witness ==
  /\ pc = "backoff"
  /\ read_outcome = "protocol_error"
  /\ tick_exc = "KeyError"
  /\ tick_prev = 1
  /\ prev_state = 1

(***************************************************************************)
(* Domains of the relay state                                              *)
(***************************************************************************)
\* C16: state-domain invariant -- in every reachable state of the tracker
\* previous_leader_state is 0, 1 or Unknown, whatever value the leader's
\* answer carries in its relay_state field.
C16_StateDomain == prev_state \in RelayStates \cup {Unknown}

\* what does hold: prev_state is Unknown or a value the leader answered
C16_StateIsSomeAnswer == prev_state \in DeviceValues

\* C17: the tracker never invokes the follower's set_relay_state with an
\* argument other than 0 or 1, and never with the Unknown sentinel, whatever
\* the leader answers.
C17_WriteArguments == \A i \in 1..Len(tick_writes) : tick_writes[i] \in RelayStates

\* what does hold: a command is sent to the follower only for 0 or 1; any
\* other argument connects to the follower and then raises KeyError
C17_OnlyRelayStatesSent ==
  /\ write_outcome = "sent" => leader_state \in RelayStates
  /\ (tick_writes # <<>> /\ tick_writes[1] \notin RelayStates /\ pc \notin TickPcs) =>
       write_outcome \in {"KeyError", "transport_error", "pending"}

(***************************************************************************)
(* Ordering within a tick                                                  *)
(***************************************************************************)
ReadPcs == {"leader_connect", "leader_abandoned", "leader_exchange"}

\* C18: strict ordering within a tick -- a follower write is attempted only
\* after the leader read of the same tick has completed successfully and its
\* connection has been closed; at no point are two device connections open at
\* once; no follower write happens in a tick whose leader read failed.
C18_StrictOrdering ==
  /\ Cardinality(conn) <= 1
  /\ pc \in WritePcs => read_outcome = "ok" /\ "leader" \notin conn
  /\ pc \in ReadPcs => tick_writes = <<>> /\ "follower" \notin conn
  /\ tick_writes # <<>> => read_outcome = "ok"
  /\ read_outcome # "ok" => write_outcome = "none" /\ "follower" \notin conn

\* the write of a detected change is connected to the follower, after the
\* read of the same tick returned and closed its connection
C18_Witness ==
  /\ pc = "follower_send"
  /\ conn = {"follower"}
  /\ read_outcome = "ok"
  /\ tick_writes = <<leader_state>>
  /\ leader_state # tick_prev

(***************************************************************************)
(* Schedule gating                                                         *)
(***************************************************************************)
\* the schedule of the tracker holds the time the iteration read
C19_ActiveNow == sched.always_active \/ C10_WindowRule(sched.active_windows, clock)

\* C19: schedule gating -- a leader read, and hence any follower write, is
\* attempted only in an iteration whose is_active check returned true for the
\* time read at its start; an iteration whose check returned false does no
\* device operation, only the scheduler sleep.
C19_ScheduleGating ==
  /\ [](pc \in TickPcs \cup {"tick_end"} => C19_ActiveNow)
  /\ [](conn # {} => C19_ActiveNow /\ pc \in TickPcs)
  /\ [](pc = "sleeping" =>
          /\ ~C19_ActiveNow
          /\ read_outcome = "pending"
          /\ tick_writes = <<>>)
  /\ [][(pc = "loop" /\ ~C19_ActiveNow) => pc' \in {"sleeping", "exited"}]_vars
  /\ [][pc = "sleeping" => pc' \in {"loop", "exited"} /\ conn' = {}]_vars

\* the leader is being read at the last instant of the only window
C19_Witness ==
  /\ pc = "leader_exchange"
  /\ Len(sched.active_windows) = 1
  /\ sched.active_windows[1][1] < sched.active_windows[1][2]
  /\ clock = sched.active_windows[1][2]
  /\ conn = {"leader"}

(***************************************************************************)
(* The scheduler sleep                                                     *)
(***************************************************************************)
\* a sleep of w seconds from the instant now lands on an active instant, has
\* no active instant before it, and is longer than nothing and no longer
\* than a day
C20_LandsOnStart(self, now, w) ==
  /\ 0 < w
  /\ w <= DayTicks \div TicksPerSec
  /\ is_active(self, (now + w * TicksPerSec) % DayTicks)
  /\ \A k \in 1..(w * TicksPerSec - 1) : ~is_active(self, (now + k) % DayTicks)

\* C20: the scheduler sleep lands exactly on the start of the next active
\* period -- for every non-empty schedule and every instant now at which
\* is_active is false, w = seconds_until_next_active(now) has 0 < w <= 86400,
\* is_active is true at now + w and false at every instant strictly between.
C20_SleepLandsOnStart ==
  (sched_pc = "done" /\ Len(sched.active_windows) > 0 /\ ~active_result) =>
    C20_LandsOnStart(sched, sched_now.time, wait_result)

\* what does hold: the same, for an instant now that is a whole second
C20_WholeSecondNow ==
  (/\ sched_pc = "done"
   /\ Len(sched.active_windows) > 0
   /\ ~active_result
   /\ sched_now.time % TicksPerSec = 0) =>
    C20_LandsOnStart(sched, sched_now.time, wait_result)

\* and from any instant the sleep ends less than a second before a start,
\* with no active instant slept through
C20_NeverSleepsThroughActive ==
  (sched_pc = "done" /\ Len(sched.active_windows) > 0 /\ ~active_result) =>
    /\ \A k \in 0..(wait_result * TicksPerSec) :
         ~is_active(sched, (sched_now.time + k) % DayTicks) \/
         (k = wait_result * TicksPerSec /\ sched_now.time % TicksPerSec = 0)
    /\ \E k \in 0..(TicksPerSec - 1) :
         is_active(sched, (sched_now.time + wait_result * TicksPerSec + k) % DayTicks)

(***************************************************************************)
(* Claims about plug_blink                                                 *)
(***************************************************************************)
\* main has ended: it returned, or it caught an exception and exited with 1
BlinkEnded == blink_pc \in {"done", "exit_1"}

\* the last state written to the plug, or the state read if none was written
BlinkFinalState == IF last_written = <<>> THEN original_relay_state ELSE last_written[1]

\* C21: plug_blink restores the original state -- for every blink count
\* n >= 0 and every original relay state in {0, 1}, if no device operation
\* fails, the last state written to the plug (the state read, if nothing is
\* written) is the original state, and the restoring write is issued only
\* when n is odd.
C21_BlinkRestores ==
  (/\ BlinkEnded
   /\ blinks >= 0
   /\ original_relay_state \in RelayStates
   /\ ~device_failed) =>
    /\ BlinkFinalState = original_relay_state
    /\ restoring => blinks % 2 = 1

\* what does hold: when main returns, the plug was last sent the state read
\* at the start (whatever integer it was), and the restoring write was issued
\* exactly when the blink count is odd
C21_RestoredWhenMainReturns ==
  /\ blink_pc = "done" =>
       /\ BlinkFinalState = original_relay_state
       /\ restoring <=> (blinks > 0 /\ blinks % 2 = 1)
       /\ last_written = <<>> <=> blinks <= 0
       /\ ~device_failed /\ blink_exc = "None"
  /\ restoring => blinks > 0 /\ blinks % 2 = 1
  /\ (BlinkEnded /\ ~device_failed /\ (delay >= 0 \/ blinks <= 0)) => blink_pc = "done"

====
